---- MODULE Spec2Model ----
(***************************************************************************)
(* Model of SentimentAnalysis.py: the concurrent review scraper            *)
(* (ReviewScraper), the JSON snapshot (save/load), the lexicon classifier  *)
(* (SentimentAnalyzer.analyze_sentiment) and the two report generators.    *)
(*                                                                         *)
(* Two specifications share the variables:                                 *)
(*   Spec    - main(): load, scrape, save, BERT classify, BERT report,     *)
(*             and a later run of main() that finds the snapshot.          *)
(*   SpecSIA - analyze_sentiment followed by display_SIA_results on a      *)
(*             one-page corpus.                                            *)
(*                                                                         *)
(* Texts are modelled by their identity: Title(p, i) is the i-th title of  *)
(* page p and Body(p, j) the j-th review body of page p.  Python dict keys *)
(* carry their type: <<"int", n>> is the int n, <<"str", n>> the str that  *)
(* holds the decimal numeral of n.                                         *)
(***************************************************************************)
EXTENDS Integers, Sequences, FiniteSets, TLC

VARIABLES total_pages, site, file, data, pc, error, future, yielded, merging,
          titles, reviews, product_star_rating, outcome, loaded,
          predictions, bert_report,
          validated_reviews, sia_i, sentiment_counts, review_sentiments,
          sia_report

vars == <<total_pages, site, file, data, pc, error, future, yielded, merging,
          titles, reviews, product_star_rating, outcome, loaded,
          predictions, bert_report,
          validated_reviews, sia_i, sentiment_counts, review_sentiments,
          sia_report>>

siaVars == <<validated_reviews, sia_i, sentiment_counts, review_sentiments,
             sia_report>>

(***************************************************************************)
(* Bounds                                                                  *)
(***************************************************************************)
MaxPages == 2

MaxSIAReviews == 2

(***************************************************************************)
(* Program constants and input alphabets                                   *)
(***************************************************************************)
P == 10

None == "None"

RatingText == "4.5 out of 5"

\* numbers of <a class="review-title"> elements a page may carry: none, one,
\* and one more than the block size the global index assumes
TitleCounts == {0, 1, P + 1}

\* numbers of <span data-hook="review-body"> elements a page may carry
BodyCounts == {0, 1, 2}

\* compound polarity of one token, in hundredths
Compounds == {-50, -3, 3, 50}

\* token lists left of a review after preprocess_reviews and validate_reviews
TokenLists ==
    {<<>>} \cup {<<c>> : c \in Compounds} \cup {<<c, d>> : c, d \in Compounds}

Title(p, i) == <<"title", p, i>>

Body(p, j) == <<"body", p, j>>

IntKey(n) == <<"int", n>>

StrKey(n) == <<"str", n>>

EmptyDict == [k \in {} |-> None]

Pages == 1..total_pages

Truthy(s) == s \notin {None, ""}

(***************************************************************************)
(* The remote site: what the access layer answers for each page            *)
(***************************************************************************)
\* rating: None = no rating element, otherwise the element's stripped text
Ratings(p) == IF p = 1 THEN {None, "", RatingText} ELSE {None, RatingText}

Responses(p) ==
    {[raises |-> TRUE, status |-> 503, n_titles |-> 0, n_bodies |-> 0, rating |-> None],
     [raises |-> FALSE, status |-> 503, n_titles |-> 0, n_bodies |-> 0, rating |-> None]}
    \cup
    {[raises |-> FALSE, status |-> 200, n_titles |-> t, n_bodies |-> b, rating |-> r] :
        t \in TitleCounts, b \in BodyCounts, r \in Ratings(p)}

(***************************************************************************)
(* ReviewScraper.get_soup / scrape_page                                    *)
(***************************************************************************)
\* TRUE: a soup object; FALSE: None
GetSoupIgnoringStatus(r) == TRUE

GetSoup(r) == r.status = 200

PageStar(page_num, r) ==
    IF page_num = 1
    THEN IF r.rating # None THEN r.rating ELSE "Not found"
    ELSE None

PageTitles(page_num, r) == [i \in 1..r.n_titles |-> Title(page_num, i)]

PageContents(page_num, r) == [j \in 1..r.n_bodies |-> Body(page_num, j)]

NoneResult(page_num, st) ==
    [state |-> st, page_num |-> page_num, is_none |-> TRUE,
     titles |-> <<>>, reviews |-> <<>>, star |-> None]

\* the outcome of the future of scrape_page(page_num)
ScrapePage(page_num, r) ==
    IF r.raises THEN NoneResult(page_num, "raised")
    ELSE IF ~GetSoup(r) THEN NoneResult(page_num, "returned")
    ELSE [state |-> "returned", page_num |-> page_num, is_none |-> FALSE,
          titles |-> PageTitles(page_num, r),
          reviews |-> PageContents(page_num, r),
          star |-> PageStar(page_num, r)]

Pending(page_num) == NoneResult(page_num, "pending")

(***************************************************************************)
(* The merge block of scrape_reviews_concurrently                          *)
(***************************************************************************)
ContributesTitlesOnly(res) == ~res.is_none /\ res.titles # <<>>

Contributes(res) == ~res.is_none /\ res.titles # <<>> /\ res.reviews # <<>>

GlobalIndex(i, page_num) == i + (page_num - 1) * P

MergeTitles(t, res) ==
    LET new == {IntKey(GlobalIndex(i, res.page_num)) : i \in DOMAIN res.titles}
        local(k) == CHOOSE i \in DOMAIN res.titles :
                        GlobalIndex(i, res.page_num) = k[2]
    IN  [k \in (DOMAIN t) \cup new |->
            IF k \in new THEN res.titles[local(k)] ELSE t[k]]

StarGuardZeroBased(star_rating, page_num) == Truthy(star_rating) /\ page_num = 0

StarGuard(star_rating, page_num) == Truthy(star_rating) /\ page_num = 1

\* the for loop over as_completed runs its body for one future at a time
ConcurrentCallbacks(m) == TRUE

SequentialLoop(m) == m = {}

(***************************************************************************)
(* JSON snapshot                                                           *)
(***************************************************************************)
\* json.dump writes every object key as a string
JsonKey(k) == IF k[1] = "int" THEN StrKey(k[2]) ELSE k

JsonScalar(s) == IF s = None THEN <<"null">> ELSE <<"string", s>>

PyScalar(j) == IF j[1] = "null" THEN None ELSE j[2]

JsonDump(d) ==
    [star_rating |-> JsonScalar(d.star_rating),
     titles |-> [k \in {JsonKey(x) : x \in DOMAIN d.titles} |->
                    d.titles[CHOOSE x \in DOMAIN d.titles : JsonKey(x) = k]],
     reviews |-> d.reviews]

JsonLoad(text) ==
    [star_rating |-> PyScalar(text.star_rating),
     titles |-> text.titles,
     reviews |-> text.reviews]

EmptyData == [star_rating |-> None, titles |-> EmptyDict, reviews |-> <<>>]

NoFile == [exists |-> FALSE, text |-> JsonDump(EmptyData)]

(***************************************************************************)
(* Initial state of main()                                                 *)
(***************************************************************************)
SIAIdle ==
    /\ validated_reviews = <<>>
    /\ sia_i = 1
    /\ sentiment_counts = [k \in {"very_positive", "positive", "negative",
                                  "very_negative", "neutral"} |-> 0]
    /\ review_sentiments = <<>>
    /\ sia_report = <<>>

Init ==
    /\ total_pages \in (0 - 1)..MaxPages
    /\ site \in [1..total_pages -> UNION {Responses(p) : p \in 1..MaxPages}]
    /\ \A p \in 1..total_pages : site[p] \in Responses(p)
    /\ file = NoFile
    /\ data = EmptyData
    /\ pc = "load"
    /\ error = ""
    /\ future = [p \in 1..total_pages |-> Pending(p)]
    /\ yielded = {}
    /\ merging = {}
    /\ titles = EmptyDict
    /\ reviews = <<>>
    /\ product_star_rating = None
    /\ outcome = "none"
    /\ loaded = FALSE
    /\ predictions = <<>>
    /\ bert_report = EmptyDict
    /\ SIAIdle

(***************************************************************************)
(* main(): load_reviews_from_file                                          *)
(***************************************************************************)
LoadReviewsFromFile ==
    /\ pc = "load"
    /\ IF file.exists
       THEN LET d == JsonLoad(file.text)
            IN  /\ titles' = d.titles
                /\ reviews' = d.reviews
                /\ product_star_rating' = d.star_rating
                /\ loaded' = TRUE
                /\ pc' = "classify"
       ELSE /\ UNCHANGED <<titles, reviews, product_star_rating, loaded>>
            /\ pc' = "submit"
    /\ UNCHANGED <<total_pages, site, file, data, error, future, yielded,
                   merging, outcome, predictions, bert_report>>
    /\ UNCHANGED siaVars

(***************************************************************************)
(* scrape_reviews_concurrently                                             *)
(***************************************************************************)
\* lines 45-47 and 75: fresh accumulators, one future per page
Submit ==
    /\ pc = "submit"
    /\ reviews' = <<>>
    /\ titles' = EmptyDict
    /\ product_star_rating' = None
    /\ future' = [p \in Pages |-> Pending(p)]
    /\ yielded' = {}
    /\ merging' = {}
    /\ pc' = "as_completed"
    /\ UNCHANGED <<total_pages, site, file, data, error, outcome, loaded,
                   predictions, bert_report>>
    /\ UNCHANGED siaVars

\* a pool thread runs scrape_page(p) to completion; ThreadPoolExecutor() has
\* more threads than MaxPages pages, so the futures may finish in any order
RunWorker(p) ==
    /\ pc = "as_completed"
    /\ future[p].state = "pending"
    /\ future' = [future EXCEPT ![p] = ScrapePage(p, site[p])]
    /\ UNCHANGED <<total_pages, site, file, data, pc, error, yielded, merging,
                   titles, reviews, product_star_rating, outcome, loaded,
                   predictions, bert_report>>
    /\ UNCHANGED siaVars

\* as_completed hands a finished future to the loop body (lines 77-83, 89-90)
Yield(p) ==
    /\ pc = "as_completed"
    /\ p \notin yielded
    /\ future[p].state # "pending"
    /\ SequentialLoop(merging)
    /\ yielded' = yielded \cup {p}
    /\ IF future[p].state = "raised"
       THEN merging' = merging
       ELSE merging' = merging \cup
                {[page |-> p,
                  at |-> IF Contributes(future[p]) THEN "update" ELSE "star"]}
    /\ UNCHANGED <<total_pages, site, file, data, pc, error, future,
                   titles, reviews, product_star_rating, outcome, loaded,
                   predictions, bert_report>>
    /\ UNCHANGED siaVars

\* line 84
UpdateTitles(m) ==
    /\ m \in merging
    /\ m.at = "update"
    /\ titles' = MergeTitles(titles, future[m.page])
    /\ merging' = (merging \ {m}) \cup {[m EXCEPT !.at = "extend"]}
    /\ UNCHANGED <<total_pages, site, file, data, pc, error, future, yielded,
                   reviews, product_star_rating, outcome, loaded,
                   predictions, bert_report>>
    /\ UNCHANGED siaVars

\* line 85
ExtendReviews(m) ==
    /\ m \in merging
    /\ m.at = "extend"
    /\ reviews' = reviews \o future[m.page].reviews
    /\ merging' = (merging \ {m}) \cup {[m EXCEPT !.at = "star"]}
    /\ UNCHANGED <<total_pages, site, file, data, pc, error, future, yielded,
                   titles, product_star_rating, outcome, loaded,
                   predictions, bert_report>>
    /\ UNCHANGED siaVars

\* lines 86-87
SetStar(m) ==
    /\ m \in merging
    /\ m.at = "star"
    /\ product_star_rating' =
          IF StarGuard(future[m.page].star, future[m.page].page_num)
          THEN future[m.page].star
          ELSE product_star_rating
    /\ merging' = merging \ {m}
    /\ UNCHANGED <<total_pages, site, file, data, pc, error, future, yielded,
                   titles, reviews, outcome, loaded, predictions, bert_report>>
    /\ UNCHANGED siaVars

\* line 92, received by main at line 293
Return ==
    /\ pc = "as_completed"
    /\ yielded = Pages
    /\ merging = {}
    /\ outcome' = "corpus"
    /\ pc' = "save"
    /\ UNCHANGED <<total_pages, site, file, data, error, future, yielded,
                   merging, titles, reviews, product_star_rating, loaded,
                   predictions, bert_report>>
    /\ UNCHANGED siaVars

(***************************************************************************)
(* save_reviews_to_file                                                    *)
(***************************************************************************)
SaveReviewsToFile ==
    /\ pc = "save"
    /\ data' = [star_rating |-> product_star_rating, titles |-> titles,
                reviews |-> reviews]
    /\ file' = [exists |-> TRUE, text |-> JsonDump(data')]
    /\ pc' = "classify"
    /\ UNCHANGED <<total_pages, site, error, future, yielded, merging,
                   titles, reviews, product_star_rating, outcome, loaded,
                   predictions, bert_report>>
    /\ UNCHANGED siaVars

(***************************************************************************)
(* BERTFineTuner.classify_reviews and display_BERT_results                 *)
(***************************************************************************)
BertLabels == {"positive", "negative"}

\* one prediction per review, in the order of the reviews; the label is the
\* model's choice.  With no review the report fails at line 269 at the latest.
ClassifyReviews ==
    /\ pc = "classify"
    /\ \E lab \in [1..Len(reviews) -> BertLabels] :
          predictions' = [k \in 1..Len(reviews) |->
                             [of |-> reviews[k], label |-> lab[k]]]
    /\ pc' = "display"
    /\ UNCHANGED <<total_pages, site, file, data, error, future, yielded,
                   merging, titles, reviews, product_star_rating, outcome,
                   loaded, bert_report>>
    /\ UNCHANGED siaVars

DisplayBERTResults ==
    /\ pc = "display"
    /\ LET total_reviews == Len(predictions)
       IN  IF total_reviews = 0
           THEN /\ error' = "ZeroDivisionError"
                /\ pc' = "crashed"
                /\ UNCHANGED bert_report
           ELSE IF \E k \in DOMAIN titles : k[1] = "str"
           THEN /\ error' = "TypeError"
                /\ pc' = "crashed"
                /\ UNCHANGED bert_report
           ELSE IF \E k \in DOMAIN titles : k[2] - 1 >= total_reviews
           THEN /\ error' = "IndexError"
                /\ pc' = "crashed"
                /\ UNCHANGED bert_report
           ELSE /\ bert_report' = [k \in DOMAIN titles |->
                                     [title |-> titles[k],
                                      prediction |-> predictions[k[2]]]]
                /\ pc' = "exit"
                /\ UNCHANGED error
    /\ UNCHANGED <<total_pages, site, file, data, future, yielded, merging,
                   titles, reviews, product_star_rating, outcome, loaded,
                   predictions>>
    /\ UNCHANGED siaVars

\* the program is started again: process state is fresh, the snapshot stays
MainAgain ==
    /\ pc \in {"exit", "crashed"}
    /\ file.exists
    /\ pc' = "load"
    /\ error' = ""
    /\ future' = [p \in Pages |-> Pending(p)]
    /\ yielded' = {}
    /\ merging' = {}
    /\ titles' = EmptyDict
    /\ reviews' = <<>>
    /\ product_star_rating' = None
    /\ outcome' = "none"
    /\ loaded' = FALSE
    /\ predictions' = <<>>
    /\ bert_report' = EmptyDict
    /\ UNCHANGED <<total_pages, site, file, data>>
    /\ UNCHANGED siaVars

ScrapeStep ==
    \/ \E p \in Pages : RunWorker(p)
    \/ \E p \in Pages : Yield(p)
    \/ \E m \in merging : UpdateTitles(m)
    \/ \E m \in merging : ExtendReviews(m)
    \/ \E m \in merging : SetStar(m)
    \/ Return

Next ==
    \/ LoadReviewsFromFile
    \/ Submit
    \/ \E p \in Pages : RunWorker(p)
    \/ \E p \in Pages : Yield(p)
    \/ \E m \in merging : UpdateTitles(m)
    \/ \E m \in merging : ExtendReviews(m)
    \/ \E m \in merging : SetStar(m)
    \/ Return
    \/ SaveReviewsToFile
    \/ ClassifyReviews
    \/ DisplayBERTResults
    \/ MainAgain

Spec == Init /\ [][Next]_vars

(***************************************************************************)
(* SentimentAnalyzer.analyze_sentiment and display_SIA_results             *)
(***************************************************************************)
RECURSIVE SumSeq(_)
SumSeq(s) == IF s = <<>> THEN 0 ELSE Head(s) + SumSeq(Tail(s))

SkipsNothing(review) == FALSE

\* "if not review: continue"
Skips(review) == review = <<>>

\* the key of sentiment_counts a review is counted under; the mean compound
\* sum/len is compared with 0.05 and -0.05 (compounds are in hundredths)
Bucket(review) ==
    LET total == SumSeq(review)
        n == Len(review)
    IN  IF total > 5 * n THEN "positive"
        ELSE IF total > 0 THEN "very_positive"
        ELSE IF total < (0 - 5) * n THEN "negative"
        ELSE IF total < 0 THEN "very_negative"
        ELSE "neutral"

\* the text appended to review_sentiments for a key of sentiment_counts
LabelText(key) ==
    CASE key = "very_positive" -> "very positive"
      [] key = "very_negative" -> "very negative"
      [] OTHER -> key

CountKeys == {"very_positive", "positive", "negative", "very_negative", "neutral"}

RECURSIVE SumCounts(_, _)
SumCounts(c, keys) ==
    IF keys = {} THEN 0
    ELSE LET k == CHOOSE x \in keys : TRUE
         IN  c[k] + SumCounts(c, keys \ {k})

\* titles.items() of a dict filled by one page's merge: ascending local index
Items(t) ==
    LET n == Cardinality(DOMAIN t)
        order == CHOOSE s \in [1..n -> DOMAIN t] :
                    \A i, j \in 1..n : i < j => s[i][2] < s[j][2]
    IN  [j \in 1..n |-> <<order[j], t[order[j]]>>]

Min(a, b) == IF a < b THEN a ELSE b

\* main() at line 311 on a corpus scraped from one page with as many titles
\* as bodies; the token lists are what lines 302-308 left of each review
InitSIA ==
    /\ total_pages = 1
    /\ \E n \in 0..MaxSIAReviews :
          /\ site = [p \in 1..1 |-> [raises |-> FALSE, status |-> 200,
                                     n_titles |-> n, n_bodies |-> n,
                                     rating |-> None]]
          /\ validated_reviews \in [1..n -> TokenLists]
    /\ future = [p \in 1..1 |-> ScrapePage(p, site[p])]
    /\ titles = IF Contributes(future[1])
                THEN MergeTitles(EmptyDict, future[1]) ELSE EmptyDict
    /\ reviews = IF Contributes(future[1]) THEN future[1].reviews ELSE <<>>
    /\ product_star_rating = "Not found"
    /\ yielded = {1}
    /\ merging = {}
    /\ outcome = "corpus"
    /\ loaded = FALSE
    /\ data = [star_rating |-> product_star_rating, titles |-> titles,
               reviews |-> reviews]
    /\ file = [exists |-> TRUE, text |-> JsonDump(data)]
    /\ predictions = <<>>
    /\ bert_report = EmptyDict
    /\ error = ""
    /\ pc = "analyze"
    /\ sia_i = 1
    /\ sentiment_counts = [k \in CountKeys |-> 0]
    /\ review_sentiments = <<>>
    /\ sia_report = <<>>

mainVars == <<total_pages, site, file, data, future, yielded, merging,
              titles, reviews, product_star_rating, outcome, loaded,
              predictions, bert_report>>

\* one iteration of the for loop of analyze_sentiment (lines 147-166)
AnalyzeStep ==
    /\ pc = "analyze"
    /\ sia_i <= Len(validated_reviews)
    /\ LET review == validated_reviews[sia_i]
       IN  IF Skips(review)
           THEN UNCHANGED <<sentiment_counts, review_sentiments>>
           ELSE /\ sentiment_counts' =
                      [sentiment_counts EXCEPT ![Bucket(review)] = @ + 1]
                /\ review_sentiments' =
                      Append(review_sentiments, LabelText(Bucket(review)))
    /\ sia_i' = sia_i + 1
    /\ UNCHANGED <<pc, error, validated_reviews, sia_report>>
    /\ UNCHANGED mainVars

\* line 168
AnalyzeReturn ==
    /\ pc = "analyze"
    /\ sia_i > Len(validated_reviews)
    /\ pc' = "display_sia"
    /\ UNCHANGED <<error, validated_reviews, sia_i, sentiment_counts,
                   review_sentiments, sia_report>>
    /\ UNCHANGED mainVars

\* lines 237-262; sia_report is the list printed by lines 255-256
DisplaySIAResults ==
    /\ pc = "display_sia"
    /\ LET total_reviews == SumCounts(sentiment_counts, CountKeys)
           items == Items(titles)
       IN  IF total_reviews = 0
           THEN /\ error' = "ZeroDivisionError"
                /\ pc' = "sia_crashed"
                /\ UNCHANGED sia_report
           ELSE /\ sia_report' =
                      [idx \in 1..Min(Len(review_sentiments), Len(items)) |->
                          [idx |-> idx, review_title |-> items[idx][2],
                           sentiment |-> review_sentiments[idx]]]
                /\ pc' = "sia_done"
                /\ UNCHANGED error
    /\ UNCHANGED <<validated_reviews, sia_i, sentiment_counts,
                   review_sentiments>>
    /\ UNCHANGED mainVars

NextSIA ==
    \/ AnalyzeStep
    \/ AnalyzeReturn
    \/ DisplaySIAResults

SpecSIA == InitSIA /\ [][NextSIA]_vars

(***************************************************************************)
(* Vocabulary of the properties, read off the site and not off the code    *)
(***************************************************************************)
Succeeded(p) == ~site[p].raises /\ site[p].status = 200

Failed(p) == ~Succeeded(p)

Returned == outcome = "corpus"

\* pages whose merge condition (titles and reviews both non-empty) is met
Contributors ==
    {p \in Pages : Succeeded(p) /\ site[p].n_titles > 0 /\ site[p].n_bodies > 0}

KeyOf(p, i) == IntKey(i + (p - 1) * 10)

KeysOfPage(p) == {KeyOf(p, i) : i \in 1..site[p].n_titles}

BodiesOfPage(p) == [j \in 1..site[p].n_bodies |-> Body(p, j)]

ReviewsFrom(p) == LET FromP(r) == r[2] = p IN SelectSeq(reviews, FromP)

RECURSIVE BodiesUpTo(_)
BodiesUpTo(n) ==
    IF n < 1 THEN <<>> ELSE BodiesUpTo(n - 1) \o BodiesOfPage(n)

\* C1: when every fetch succeeds, the returned reviews are the pages' bodies
\* concatenated in ascending page number, whatever the completion order.
\* Stated for the sites whose pages all carry titles and bodies, so that
\* every page is merged.
C1_ReviewsInPageOrder ==
    (Returned /\ total_pages >= 1 /\ Contributors = Pages)
        => reviews = BodiesUpTo(total_pages)

\* C2: the returned titles hold the i-th title of every contributing page n
\* at key i + (n-1)*10, and hold no other keys.
C2_TitlesAtGlobalIndex ==
    Returned =>
        /\ \A p \in Contributors : \A i \in 1..site[p].n_titles :
              /\ KeyOf(p, i) \in DOMAIN titles
              /\ titles[KeyOf(p, i)] = Title(p, i)
        /\ DOMAIN titles = UNION {KeysOfPage(p) : p \in Contributors}

\* C3: with any set of failed pages the scrape is never stuck and returns a
\* corpus whose title keys and whose reviews derive from the same set of
\* pages, the non-failed pages that meet the merge condition: nothing of a
\* failed page is in it and every other page's bodies are there, in order.
C3_FailuresIsolated ==
    /\ pc = "as_completed" => ENABLED ScrapeStep
    /\ (Returned /\ ~loaded) =>
          /\ DOMAIN titles = UNION {KeysOfPage(p) : p \in Contributors}
          /\ \A k \in DOMAIN titles :
                /\ titles[k][2] \in Contributors
                /\ k = KeyOf(titles[k][2], titles[k][3])
          /\ {reviews[j][2] : j \in DOMAIN reviews} = Contributors
          /\ \A p \in Contributors : ReviewsFrom(p) = BodiesOfPage(p)
          /\ \A p \in Pages : Failed(p) =>
                /\ ReviewsFrom(p) = <<>>
                /\ \A k \in DOMAIN titles : titles[k][2] # p

C3_Witness ==
    /\ Returned
    /\ \E p \in Pages : site[p].raises
    /\ Contributors # {}
    /\ reviews # <<>>

\* what page 1 yields as star rating: the rating element's text, "Not found"
\* without the element, nothing when the text is empty or page 1 failed
ExpectedStar ==
    IF 1 \in Pages /\ Succeeded(1)
    THEN IF site[1].rating = None THEN "Not found"
         ELSE IF site[1].rating = "" THEN None
         ELSE site[1].rating
    ELSE None

\* C4: the star rating is only ever page 1's: it is set from no other page,
\* it is None when page 1 failed, and on return it is what page 1 yielded.
C4_StarOnlyFromPageOne ==
    ~loaded =>
        /\ product_star_rating # None =>
              /\ 1 \in yielded
              /\ product_star_rating = ExpectedStar
        /\ Returned => product_star_rating = ExpectedStar

C4_Witness ==
    /\ Returned
    /\ 1 \in Pages
    /\ Failed(1)
    /\ \E p \in Pages \ {1} : Succeeded(p) /\ site[p].rating # None
    /\ product_star_rating = None

EmptyScrape == total_pages < 1 \/ \A p \in Pages : Failed(p)

C6_RoundTrip ==
    (loaded /\ pc = "classify") =>
        /\ DOMAIN titles = DOMAIN data.titles
        /\ titles = data.titles
        /\ reviews = data.reviews
        /\ product_star_rating = data.star_rating

\* indices of the non-empty token lists among the first n, ascending
RECURSIVE NonEmptyUpTo(_)
NonEmptyUpTo(n) ==
    IF n < 1 THEN <<>>
    ELSE IF validated_reviews[n] = <<>> THEN NonEmptyUpTo(n - 1)
    ELSE Append(NonEmptyUpTo(n - 1), n)

Processed == IF pc = "analyze" THEN sia_i - 1 ELSE Len(validated_reviews)

\* C7: empty token lists are skipped: the labels and the sum of the counts
\* both number the non-empty lists seen so far, and the j-th label is the
\* label of the j-th non-empty list.
C7_EmptySkipped ==
    LET idx == NonEmptyUpTo(Processed)
    IN  /\ Len(review_sentiments) = Len(idx)
        /\ SumCounts(sentiment_counts, CountKeys) = Len(idx)
        /\ \A j \in 1..Len(idx) :
              review_sentiments[j] = LabelText(Bucket(validated_reviews[idx[j]]))

C7_Witness ==
    /\ pc = "display_sia"
    /\ \E i, j \in DOMAIN validated_reviews :
          i < j /\ validated_reviews[i] = <<>> /\ validated_reviews[j] # <<>>

\* C8: every line of the lexicon report shows a label beside the title of
\* the review the label was computed from.
C8_LabelsBesideOwnTitle ==
    pc = "sia_done" =>
        LET idx == NonEmptyUpTo(Len(validated_reviews))
        IN  \A j \in DOMAIN sia_report :
               LET r == reviews[idx[j]]
               IN  sia_report[j].review_title = Title(r[2], r[3])

\* C9: at most one merge block runs at a time, no body is appended twice,
\* no page outside a running merge block is partly applied, and on return
\* every contributing page is applied in full.
C9_AccumulatorsSafe ==
    ~loaded =>
        /\ Cardinality(merging) <= 1
        /\ \A i, j \in DOMAIN reviews : reviews[i] = reviews[j] => i = j
        /\ \A p \in Pages \ {m.page : m \in merging} :
              \/ ReviewsFrom(p) = <<>>
              \/ /\ ReviewsFrom(p) = BodiesOfPage(p)
                 /\ KeysOfPage(p) \subseteq DOMAIN titles
        /\ Returned => \A p \in Contributors :
              /\ ReviewsFrom(p) = BodiesOfPage(p)
              /\ KeysOfPage(p) \subseteq DOMAIN titles

C9_Witness ==
    \E m \in merging :
        /\ m.at = "extend"
        /\ \E q \in Pages \ yielded :
              future[q].state = "returned" /\ Contributes(future[q])

\* C10: when the BERT report is printed after a scrape, every key idx of
\* titles is within 1..len(predictions) and predictions[idx - 1] is the
\* prediction for the review the title belongs to.  Stated for the sites
\* whose pages carry as many titles as review bodies.
C10_PredictionOfOwnReview ==
    (/\ pc = "display"
     /\ Returned
     /\ \A p \in Pages : Succeeded(p) => site[p].n_titles = site[p].n_bodies) =>
        \A k \in DOMAIN titles :
            /\ 1 <= k[2]
            /\ k[2] <= Len(predictions)
            /\ predictions[k[2]].of = Body(titles[k][2], titles[k][3])

====
